---- MODULE Spec2Model ----
(***************************************************************************)
(* Model of the AidEscrow contract                                         *)
(* (app/onchain/contracts/aid_escrow/src/lib.rs).                          *)
(*                                                                         *)
(* The contract keeps an administrator, a map of packages and a per-token  *)
(* total of locked funds; token balances live in the token contracts.      *)
(* Every entry point is one action; a call that changes nothing (a query,  *)
(* a rejected call) is a stuttering step.  A storage `set` takes effect    *)
(* where the code calls it, also when the function then returns an Err     *)
(* value; a panic (failed require_auth, failed token transfer, i128        *)
(* overflow under the overflow checks of the Soroban build profile, which  *)
(* is also the profile the tests run under) aborts the invocation and      *)
(* leaves the state as it was before the call.  A token transfer may call  *)
(* back into the contract before it moves the funds (re-entrancy).         *)
(***************************************************************************)
EXTENDS Integers, Sequences, FiniteSets, TLC

(* ------------------------------ bounds -------------------------------- *)
MaxTime    == 2   \* the ledger timestamp runs over 0..MaxTime
MaxExpiry  == 1   \* expires_at is drawn from 0..MaxExpiry
Supply     == 2   \* tokens of each asset in circulation
MaxReentry == 1   \* nesting depth of re-entrant calls made by a token
MaxI128    == 7   \* i128 scaled down: values range over -(MaxI128+1)..MaxI128

(* ------------------------------ domains ------------------------------- *)
Pool       == "pool"                  \* env.current_contract_address()
Addrs      == {"adm", "ben"}          \* identities able to authorise a call
Admins     == {"adm"}
Recipients == {"ben"}
Holders    == Addrs \cup {Pool}
Assets     == {"X"}
Ids        == {1, 2}                  \* package ids callers use
Expiries   == 0..MaxExpiry
Amounts    == {0, 1, 2, MaxI128}      \* amounts a caller passes
AuthSets   == {{a} : a \in Addrs}     \* who authorised a top-level call
AllAuth    == Addrs                   \* env.mock_all_auths()
NoAdmin    == "none"                  \* KEY_ADMIN not set
CbOps      == {"claim", "disburse", "revoke", "refund"}
CbCalls    == [op : CbOps, id : Ids]

RECURSIVE SeqsUpTo(_, _)
SeqsUpTo(S, n) ==
    IF n = 0 THEN {<<>>}
    ELSE LET shorter == SeqsUpTo(S, n - 1)
         IN  shorter \cup {<<x>> \o s : x \in S, s \in {t \in shorter : Len(t) = n - 1}}

Scripts == SeqsUpTo(CbCalls, MaxReentry)   \* what a token calls back, outermost first

VARIABLES
    admin,            \* instance storage KEY_ADMIN, or NoAdmin
    packages,         \* persistent storage ("pkg", id) -> Package
    locked,           \* instance storage KEY_TOTAL_LOCKED: token -> i128
    balance,          \* token -> holder -> balance (the token contracts)
    now,              \* env.ledger().timestamp()
    event,            \* the contract event published last, with the calls
                      \* the token made back during that call's transfer
    settled,          \* id -> number of successful claim/disburse calls
    unlocks,          \* id -> number of decrement_locked calls made for id
    paid,             \* id -> amounts transferred out of the pool for id
    prev              \* id -> the stored status before its last change

vars == <<admin, packages, locked, balance, now, event,
          settled, unlocks, paid, prev>>

(* The part of the state a call (and a nested call) reads and writes.      *)
Cur == [admin |-> admin, packages |-> packages, locked |-> locked,
        balance |-> balance, event |-> event, settled |-> settled,
        unlocks |-> unlocks, paid |-> paid, prev |-> prev]

(* ------------------------------ helpers ------------------------------- *)
InI128(x) == x >= -(MaxI128 + 1) /\ x <= MaxI128

Fail(S, e) == [st |-> S, res |-> e, trace |-> <<>>]

Trap(S) == Fail(S, "Trap")

(* the panic of a token transfer the sender cannot pay                     *)
TransferTrap(S) == Fail(S, "TransferTrap")

require_auth(auths, a) == a \in auths

(* struct Package; created_at and metadata are written once by            *)
(* create_package and never read by the contract, and are left out.        *)
Package(id, recipient, amount, token, status, expires_at) ==
    [id |-> id, recipient |-> recipient, amount |-> amount, token |-> token,
     status |-> status, expires_at |-> expires_at]

(* package.status = status; env.storage().persistent().set(&key, &package) *)
SetStatus(S, id, status) ==
    [S EXCEPT !.packages = [@ EXCEPT ![id].status = status],
              !.prev = [@ EXCEPT ![id] = S.packages[id].status]]

(* XxxEvent { .. }.publish(&env)                                           *)
publish(S, name, id, amount, nested) ==
    [S EXCEPT !.event = [name |-> name, id |-> id, amount |-> amount,
                         nested |-> nested]]

(* The expiry test with the boundary included.                             *)
is_expired_inclusive(package) ==
    package.expires_at > 0 /\ now >= package.expires_at

is_expired(package) ==
    package.expires_at > 0 /\ now > package.expires_at

(* decrement_locked with the comparison the wrong way round.               *)
decrement_locked_reversed(S, token, amount) ==
    LET current    == S.locked[token]
        new_locked == IF current < amount THEN current - amount ELSE 0
    IN  [S EXCEPT !.locked = [@ EXCEPT ![token] = new_locked]]

decrement_locked(S, token, amount) ==
    LET current    == S.locked[token]
        new_locked == IF current > amount THEN current - amount ELSE 0
    IN  [S EXCEPT !.locked = [@ EXCEPT ![token] = new_locked]]

NoteUnlock(S, id) == [S EXCEPT !.unlocks = [@ EXCEPT ![id] = @ + 1]]

NoteSettled(S, id) == [S EXCEPT !.settled = [@ EXCEPT ![id] = @ + 1]]

NotePaid(S, id, to, amount) ==
    [S EXCEPT !.paid = [@ EXCEPT ![id] = [@ EXCEPT ![to] = @ + amount]]]

RECURSIVE claim(_, _, _, _), disburse(_, _, _, _), revoke(_, _, _),
          refund(_, _, _, _), transfer(_, _, _, _, _, _), Invoke(_, _, _)

(* A call the token makes back into the contract during a transfer.  A     *)
(* nested call that panics is rolled back alone and the token goes on.     *)
Invoke(S, call, rest) ==
    LET r == CASE call.op = "claim"    -> claim(S, call.id, AllAuth, rest)
               [] call.op = "disburse" -> disburse(S, call.id, AllAuth, rest)
               [] call.op = "revoke"   -> revoke(S, call.id, AllAuth)
               [] call.op = "refund"   -> refund(S, call.id, AllAuth, rest)
    IN  [st    |-> r.st,
         trace |-> <<[op |-> call.op, id |-> call.id, res |-> r.res]>> \o r.trace]

(* token::Client::transfer: the token may first call back (script), then   *)
(* moves the funds, and panics when the sender's balance is too small.     *)
transfer(S, token, from, to, amount, script) ==
    LET cb == IF script = <<>> THEN [st |-> S, trace |-> <<>>]
              ELSE Invoke(S, Head(script), Tail(script))
        B  == cb.st.balance
    IN  IF B[token][from] < amount
        THEN [ok |-> FALSE, st |-> S, trace |-> cb.trace]
        ELSE [ok |-> TRUE,
              st |-> [cb.st EXCEPT !.balance =
                        [B EXCEPT ![token] =
                            [h \in Holders |->
                                B[token][h]
                                - (IF h = from THEN amount ELSE 0)
                                + (IF h = to THEN amount ELSE 0)]]],
              trace |-> cb.trace]

(* ---------------------------- entry points ---------------------------- *)
(* init without the AlreadyInitialized check.                              *)
init_again(S, a) ==
    [st |-> [S EXCEPT !.admin = a], res |-> "Ok", trace |-> <<>>]

init(S, a) ==
    IF S.admin # NoAdmin THEN Fail(S, "AlreadyInitialized")
    ELSE [st |-> [S EXCEPT !.admin = a], res |-> "Ok", trace |-> <<>>]

get_admin(S) ==
    IF S.admin = NoAdmin THEN Fail(S, "NotInitialized") ELSE Fail(S, "Ok")

fund(S, token, from, amount, auths) ==
    IF amount <= 0 THEN Fail(S, "InvalidAmount")
    ELSE IF ~require_auth(auths, from) THEN Trap(S)
    ELSE LET t == transfer(S, token, from, Pool, amount, <<>>)
         IN  IF ~t.ok THEN TransferTrap(S)
             ELSE [st |-> publish(t.st, "Fund", 0, amount, <<>>),
                   res |-> "Ok", trace |-> <<>>]

(* create_package that stores the new locked total before the solvency     *)
(* check.                                                                  *)
create_package_eager(S, id, recipient, amount, token, expires_at, auths) ==
    IF S.admin = NoAdmin THEN Fail(S, "NotInitialized")
    ELSE IF ~require_auth(auths, S.admin) THEN Trap(S)
    ELSE IF amount <= 0 THEN Fail(S, "InvalidAmount")
    ELSE IF id \in DOMAIN S.packages THEN Fail(S, "PackageIdExists")
    ELSE LET contract_balance == S.balance[token][Pool]
             current_locked   == S.locked[token]
             new_locked       == current_locked + amount
             S1 == [S EXCEPT !.locked = [@ EXCEPT ![token] = new_locked]]
             S2 == [S1 EXCEPT !.packages =
                      (id :> Package(id, recipient, amount, token,
                                     "Created", expires_at)) @@ @]
         IN  IF ~InI128(new_locked) THEN Trap(S)
             ELSE IF contract_balance < new_locked
             THEN Fail(S1, "InsufficientFunds")
             ELSE [st |-> publish(S2, "PackageCreated", id, amount, <<>>),
                   res |-> "Ok", trace |-> <<>>]

(* create_package that lets the id of a package no longer open be used     *)
(* again.                                                                  *)
create_package_reuse(S, id, recipient, amount, token, expires_at, auths) ==
    IF S.admin = NoAdmin THEN Fail(S, "NotInitialized")
    ELSE IF ~require_auth(auths, S.admin) THEN Trap(S)
    ELSE IF amount <= 0 THEN Fail(S, "InvalidAmount")
    ELSE IF id \in DOMAIN S.packages /\ S.packages[id].status = "Created"
    THEN Fail(S, "PackageIdExists")
    ELSE LET contract_balance == S.balance[token][Pool]
             current_locked   == S.locked[token]
             new_locked       == current_locked + amount
             S1 == [S EXCEPT !.locked = [@ EXCEPT ![token] = new_locked]]
             S2 == [S1 EXCEPT !.packages =
                      (id :> Package(id, recipient, amount, token,
                                     "Created", expires_at)) @@ @]
         IN  IF ~InI128(new_locked) THEN Trap(S)
             ELSE IF contract_balance < new_locked
             THEN Fail(S, "InsufficientFunds")
             ELSE [st |-> publish(S2, "PackageCreated", id, amount, <<>>),
                   res |-> "Ok", trace |-> <<>>]

create_package(S, id, recipient, amount, token, expires_at, auths) ==
    IF S.admin = NoAdmin THEN Fail(S, "NotInitialized")
    ELSE IF ~require_auth(auths, S.admin) THEN Trap(S)
    ELSE IF amount <= 0 THEN Fail(S, "InvalidAmount")
    ELSE IF id \in DOMAIN S.packages THEN Fail(S, "PackageIdExists")
    ELSE LET contract_balance == S.balance[token][Pool]
             current_locked   == S.locked[token]
             new_locked       == current_locked + amount
             S1 == [S EXCEPT !.locked = [@ EXCEPT ![token] = new_locked]]
             S2 == [S1 EXCEPT !.packages =
                      (id :> Package(id, recipient, amount, token,
                                     "Created", expires_at)) @@ @]
         IN  IF ~InI128(new_locked) THEN Trap(S)
             ELSE IF contract_balance < new_locked
             THEN Fail(S, "InsufficientFunds")
             ELSE [st |-> publish(S2, "PackageCreated", id, amount, <<>>),
                   res |-> "Ok", trace |-> <<>>]

(* claim that stores the Claimed status only after the transfer.           *)
claim_late(S, id, auths, script) ==
    IF id \notin DOMAIN S.packages THEN Fail(S, "PackageNotFound")
    ELSE LET package == S.packages[id]
         IN  IF package.status # "Created" THEN Fail(S, "PackageNotActive")
             ELSE IF is_expired(package)
             THEN Fail(SetStatus(S, id, "Expired"), "PackageExpired")
             ELSE IF ~require_auth(auths, package.recipient) THEN Trap(S)
             ELSE LET t  == transfer(S, package.token, Pool, package.recipient,
                                     package.amount, script)
                      S1 == SetStatus(t.st, id, "Claimed")
                      S2 == NoteUnlock(
                              decrement_locked(S1, package.token, package.amount), id)
                      S3 == NoteSettled(
                              NotePaid(S2, id, "recipient", package.amount), id)
                  IN  IF ~t.ok THEN TransferTrap(S)
                      ELSE [st |-> publish(S3, "Claimed", id, package.amount, t.trace),
                            res |-> "Ok", trace |-> t.trace]

(* claim that unlocks the funds of the package it finds expired.           *)
claim_unlocking(S, id, auths, script) ==
    IF id \notin DOMAIN S.packages THEN Fail(S, "PackageNotFound")
    ELSE LET package == S.packages[id]
         IN  IF package.status # "Created" THEN Fail(S, "PackageNotActive")
             ELSE IF is_expired(package)
             THEN Fail(NoteUnlock(
                         decrement_locked(SetStatus(S, id, "Expired"),
                                          package.token, package.amount), id),
                       "PackageExpired")
             ELSE IF ~require_auth(auths, package.recipient) THEN Trap(S)
             ELSE LET S1 == SetStatus(S, id, "Claimed")
                      S2 == NoteUnlock(
                              decrement_locked(S1, package.token, package.amount), id)
                      t  == transfer(S2, package.token, Pool, package.recipient,
                                     package.amount, script)
                      S3 == NoteSettled(
                              NotePaid(t.st, id, "recipient", package.amount), id)
                  IN  IF ~t.ok THEN TransferTrap(S)
                      ELSE [st |-> publish(S3, "Claimed", id, package.amount, t.trace),
                            res |-> "Ok", trace |-> t.trace]

claim(S, id, auths, script) ==
    IF id \notin DOMAIN S.packages THEN Fail(S, "PackageNotFound")
    ELSE LET package == S.packages[id]
         IN  IF package.status # "Created" THEN Fail(S, "PackageNotActive")
             ELSE IF is_expired(package)
             THEN Fail(SetStatus(S, id, "Expired"), "PackageExpired")
             ELSE IF ~require_auth(auths, package.recipient) THEN Trap(S)
             ELSE LET S1 == SetStatus(S, id, "Claimed")
                      S2 == NoteUnlock(
                              decrement_locked(S1, package.token, package.amount), id)
                      t  == transfer(S2, package.token, Pool, package.recipient,
                                     package.amount, script)
                      S3 == NoteSettled(
                              NotePaid(t.st, id, "recipient", package.amount), id)
                  IN  IF ~t.ok THEN TransferTrap(S)
                      ELSE [st |-> publish(S3, "Claimed", id, package.amount, t.trace),
                            res |-> "Ok", trace |-> t.trace]

(* disburse without the status check.                                      *)
disburse_unchecked(S, id, auths, script) ==
    IF S.admin = NoAdmin THEN Fail(S, "NotInitialized")
    ELSE IF ~require_auth(auths, S.admin) THEN Trap(S)
    ELSE IF id \notin DOMAIN S.packages THEN Fail(S, "PackageNotFound")
    ELSE LET package == S.packages[id]
             S1 == SetStatus(S, id, "Claimed")
             S2 == NoteUnlock(
                     decrement_locked(S1, package.token, package.amount), id)
             t  == transfer(S2, package.token, Pool, package.recipient,
                            package.amount, script)
             S3 == NoteSettled(NotePaid(t.st, id, "recipient", package.amount), id)
         IN  IF ~t.ok THEN TransferTrap(S)
             ELSE [st |-> publish(S3, "Disbursed", id, package.amount, t.trace),
                   res |-> "Ok", trace |-> t.trace]

disburse(S, id, auths, script) ==
    IF S.admin = NoAdmin THEN Fail(S, "NotInitialized")
    ELSE IF ~require_auth(auths, S.admin) THEN Trap(S)
    ELSE IF id \notin DOMAIN S.packages THEN Fail(S, "PackageNotFound")
    ELSE LET package == S.packages[id]
         IN  IF package.status # "Created" THEN Fail(S, "PackageNotActive")
             ELSE LET S1 == SetStatus(S, id, "Claimed")
                      S2 == NoteUnlock(
                              decrement_locked(S1, package.token, package.amount), id)
                      t  == transfer(S2, package.token, Pool, package.recipient,
                                     package.amount, script)
                      S3 == NoteSettled(
                              NotePaid(t.st, id, "recipient", package.amount), id)
                  IN  IF ~t.ok THEN TransferTrap(S)
                      ELSE [st |-> publish(S3, "Disbursed", id, package.amount, t.trace),
                            res |-> "Ok", trace |-> t.trace]

(* revoke without the status check.                                        *)
revoke_unchecked(S, id, auths) ==
    IF S.admin = NoAdmin THEN Fail(S, "NotInitialized")
    ELSE IF ~require_auth(auths, S.admin) THEN Trap(S)
    ELSE IF id \notin DOMAIN S.packages THEN Fail(S, "PackageNotFound")
    ELSE LET package == S.packages[id]
             S1 == SetStatus(S, id, "Cancelled")
             S2 == NoteUnlock(
                     decrement_locked(S1, package.token, package.amount), id)
         IN  [st |-> publish(S2, "Revoked", id, package.amount, <<>>),
              res |-> "Ok", trace |-> <<>>]

(* revoke that forgets to unlock the funds.                                *)
revoke_keeps_locked(S, id, auths) ==
    IF S.admin = NoAdmin THEN Fail(S, "NotInitialized")
    ELSE IF ~require_auth(auths, S.admin) THEN Trap(S)
    ELSE IF id \notin DOMAIN S.packages THEN Fail(S, "PackageNotFound")
    ELSE LET package == S.packages[id]
         IN  IF package.status # "Created" THEN Fail(S, "InvalidState")
             ELSE [st |-> publish(SetStatus(S, id, "Cancelled"),
                                  "Revoked", id, package.amount, <<>>),
                   res |-> "Ok", trace |-> <<>>]

revoke(S, id, auths) ==
    IF S.admin = NoAdmin THEN Fail(S, "NotInitialized")
    ELSE IF ~require_auth(auths, S.admin) THEN Trap(S)
    ELSE IF id \notin DOMAIN S.packages THEN Fail(S, "PackageNotFound")
    ELSE LET package == S.packages[id]
         IN  IF package.status # "Created" THEN Fail(S, "InvalidState")
             ELSE LET S1 == SetStatus(S, id, "Cancelled")
                      S2 == NoteUnlock(
                              decrement_locked(S1, package.token, package.amount), id)
                  IN  [st |-> publish(S2, "Revoked", id, package.amount, <<>>),
                       res |-> "Ok", trace |-> <<>>]

(* refund without the rejection of Claimed and Refunded packages.          *)
refund_unchecked(S, id, auths, script) ==
    IF S.admin = NoAdmin THEN Fail(S, "NotInitialized")
    ELSE IF ~require_auth(auths, S.admin) THEN Trap(S)
    ELSE IF id \notin DOMAIN S.packages THEN Fail(S, "PackageNotFound")
    ELSE LET package == S.packages[id]
             status  == package.status
         IN  IF status = "Created" /\ ~is_expired(package) THEN Fail(S, "InvalidState")
             ELSE LET S0 == IF status = "Created"
                            THEN NoteUnlock(
                                   decrement_locked(S, package.token, package.amount), id)
                            ELSE S
                      S1 == SetStatus(S0, id, "Refunded")
                      t  == transfer(S1, package.token, Pool, S.admin,
                                     package.amount, script)
                      S2 == NotePaid(t.st, id, "admin", package.amount)
                  IN  IF ~t.ok THEN TransferTrap(S)
                      ELSE [st |-> publish(S2, "Refunded", id, package.amount, t.trace),
                            res |-> "Ok", trace |-> t.trace]

refund(S, id, auths, script) ==
    IF S.admin = NoAdmin THEN Fail(S, "NotInitialized")
    ELSE IF ~require_auth(auths, S.admin) THEN Trap(S)
    ELSE IF id \notin DOMAIN S.packages THEN Fail(S, "PackageNotFound")
    ELSE LET package == S.packages[id]
             status  == package.status
         IN  IF status = "Created" /\ ~is_expired(package) THEN Fail(S, "InvalidState")
             ELSE IF status = "Claimed" \/ status = "Refunded"
             THEN Fail(S, "InvalidState")
             ELSE LET S0 == IF status = "Created"
                            THEN NoteUnlock(
                                   decrement_locked(S, package.token, package.amount), id)
                            ELSE S
                      S1 == SetStatus(S0, id, "Refunded")
                      t  == transfer(S1, package.token, Pool, S.admin,
                                     package.amount, script)
                      S2 == NotePaid(t.st, id, "admin", package.amount)
                  IN  IF ~t.ok THEN TransferTrap(S)
                      ELSE [st |-> publish(S2, "Refunded", id, package.amount, t.trace),
                            res |-> "Ok", trace |-> t.trace]

(* get_package that expires a Created package past its expiry on read.     *)
get_package_expiring(S, id) ==
    IF id \notin DOMAIN S.packages THEN Fail(S, "PackageNotFound")
    ELSE LET package == S.packages[id]
             S1 == IF package.status = "Created" /\ is_expired(package)
                   THEN SetStatus(S, id, "Expired") ELSE S
         IN  [st |-> S1, res |-> "Ok", val |-> S1.packages[id], trace |-> <<>>]

(* The record found is returned in val.                                    *)
get_package(S, id) ==
    IF id \notin DOMAIN S.packages THEN Fail(S, "PackageNotFound")
    ELSE [st |-> S, res |-> "Ok", val |-> S.packages[id], trace |-> <<>>]

(* ------------------------------ actions ------------------------------- *)
Commit(r) ==
    /\ admin' = r.st.admin
    /\ packages' = r.st.packages
    /\ locked' = r.st.locked
    /\ balance' = r.st.balance
    /\ event' = r.st.event
    /\ settled' = r.st.settled
    /\ unlocks' = r.st.unlocks
    /\ paid' = r.st.paid
    /\ prev' = r.st.prev
    /\ UNCHANGED now

CallInit(a) == Commit(init(Cur, a))

CallGetAdmin == Commit(get_admin(Cur))

CallFund(token, from, amount, auths) == Commit(fund(Cur, token, from, amount, auths))

CallCreatePackage(id, recipient, amount, token, expires_at, auths) ==
    Commit(create_package(Cur, id, recipient, amount, token, expires_at, auths))

CallClaim(id, auths, script) == Commit(claim(Cur, id, auths, script))

CallDisburse(id, auths, script) == Commit(disburse(Cur, id, auths, script))

CallRevoke(id, auths) == Commit(revoke(Cur, id, auths))

CallRefund(id, auths, script) == Commit(refund(Cur, id, auths, script))

CallGetPackage(id) == Commit(get_package(Cur, id))

AdvanceClock ==
    /\ now < MaxTime
    /\ now' = now + 1
    /\ UNCHANGED <<admin, packages, locked, balance, event,
                   settled, unlocks, paid, prev>>

Init ==
    /\ admin = NoAdmin
    /\ packages = <<>>
    /\ locked = [t \in Assets |-> 0]
    /\ balance = [t \in Assets |-> [h \in Holders |-> IF h = "adm" THEN Supply ELSE 0]]
    /\ now = 0
    /\ event = [name |-> "None", id |-> 0, amount |-> 0, nested |-> <<>>]
    /\ settled = [i \in Ids |-> 0]
    /\ unlocks = [i \in Ids |-> 0]
    /\ paid = [i \in Ids |-> [recipient |-> 0, admin |-> 0]]
    /\ prev = [i \in Ids |-> "None"]

(* What the token may call back during a call: a call that returns or     *)
(* panics before its transfer never enters the token, so no callback is    *)
(* drawn for it.  r is the call's outcome with a token that only moves     *)
(* funds.                                                                  *)
Callbacks(scripts, r) ==
    IF r.res \in {"Ok", "TransferTrap"} THEN scripts ELSE {<<>>}

(* One step of the contract's environment: any entry point with any        *)
(* arguments, or the ledger clock moving on.  `scripts` is what tokens may *)
(* call back during a transfer.                                            *)
Step(scripts) ==
    \/ \E a \in Admins : CallInit(a)
    \/ CallGetAdmin
    \/ \E token \in Assets, from \in Addrs, amount \in Amounts, auths \in AuthSets :
          CallFund(token, from, amount, auths)
    \/ \E id \in Ids, recipient \in Recipients, amount \in Amounts, token \in Assets,
          expires_at \in Expiries, auths \in AuthSets :
          CallCreatePackage(id, recipient, amount, token, expires_at, auths)
    \/ \E id \in Ids, auths \in AuthSets :
          \E script \in Callbacks(scripts, claim(Cur, id, auths, <<>>)) :
             CallClaim(id, auths, script)
    \/ \E id \in Ids, auths \in AuthSets :
          \E script \in Callbacks(scripts, disburse(Cur, id, auths, <<>>)) :
             CallDisburse(id, auths, script)
    \/ \E id \in Ids, auths \in AuthSets : CallRevoke(id, auths)
    \/ \E id \in Ids, auths \in AuthSets :
          \E script \in Callbacks(scripts, refund(Cur, id, auths, <<>>)) :
             CallRefund(id, auths, script)
    \/ \E id \in Ids : CallGetPackage(id)
    \/ AdvanceClock

(* Tokens that only move funds (the Stellar asset contract of the tests).  *)
Next == Step({<<>>})

Spec == Init /\ [][Next]_vars

(* Tokens that may call back into the contract during a transfer.          *)
NextReentrant == Step(Scripts)

SpecReentrant == Init /\ [][NextReentrant]_vars

(* ------------------------------ properties ---------------------------- *)
Errors == {"NotInitialized", "AlreadyInitialized", "NotAuthorized", "InvalidAmount",
           "PackageNotFound", "PackageNotActive", "PackageExpired",
           "PackageNotExpired", "InsufficientFunds", "PackageIdExists",
           "InvalidState"}

Rejected == {"PackageNotActive", "InvalidState"}

(* C1: solvency - in every reachable state and for every asset the locked  *)
(* total is at most the contract's own token balance.                      *)
C1_Solvency == \A t \in Assets : locked[t] <= balance[t][Pool]

(* C2: admission control - an administrator-authorised create_package with *)
(* amount > 0 and an unused id fails with InsufficientFunds exactly when   *)
(* balance - locked < amount, and otherwise succeeds, adds amount to       *)
(* locked and stores a Created package.                                    *)
C2_Admission ==
    \A id \in Ids, recipient \in Recipients, amount \in Amounts,
       token \in Assets, expires_at \in Expiries :
        (admin # NoAdmin /\ amount > 0 /\ id \notin DOMAIN packages)
        => LET r == create_package(Cur, id, recipient, amount, token,
                                   expires_at, {admin})
           IN  IF balance[token][Pool] - locked[token] < amount
               THEN r.res = "InsufficientFunds"
               ELSE /\ r.res = "Ok"
                    /\ r.st.locked[token] = locked[token] + amount
                    /\ id \in DOMAIN r.st.packages
                    /\ r.st.packages[id].status = "Created"
                    /\ r.st.packages[id].amount = amount

(* C3: at most one settlement - for every package at most one claim or     *)
(* disburse ever succeeds, and a claim or an administrator's disburse      *)
(* attempted after a successful one fails with PackageNotActive.           *)
C3_AtMostOneSettlement ==
    \A id \in Ids :
        /\ settled[id] <= 1
        /\ settled[id] >= 1
             => /\ \A auths \in AuthSets :
                     claim(Cur, id, auths, <<>>).res = "PackageNotActive"
                /\ disburse(Cur, id, {admin}, <<>>).res = "PackageNotActive"

C3_Witness ==
    /\ event.name \in {"Claimed", "Disbursed"}
    /\ settled[event.id] = 1
    /\ claim(Cur, event.id, {"ben"}, <<>>).res = "PackageNotActive"
    /\ disburse(Cur, event.id, {admin}, <<>>).res = "PackageNotActive"

(* C4: unlock on terminal - every transition of a package out of Created   *)
(* into Claimed, Expired or Cancelled decrements locked by exactly the     *)
(* package's amount, and that decrement happens exactly once.              *)
C4_UnlockOnTerminal ==
    [][\A id \in DOMAIN packages :
        LET package == packages[id]
        IN  ( /\ package.status = "Created"
              /\ packages'[id].status \in {"Claimed", "Expired", "Cancelled"} )
            => /\ locked'[package.token] = locked[package.token] - package.amount
               /\ unlocks'[id] = 1]_vars

(* C5: status state machine.  The statement as claimed: the only status    *)
(* changes of a stored package are Created->Claimed, Created->Expired,     *)
(* Created->Cancelled, Expired->Refunded and Cancelled->Refunded.          *)
ClaimedTransitions ==
    {<<"Created", "Claimed">>, <<"Created", "Expired">>, <<"Created", "Cancelled">>,
     <<"Expired", "Refunded">>, <<"Cancelled", "Refunded">>}

C5_Original ==
    [][\A id \in DOMAIN packages :
        /\ id \in DOMAIN packages'
        /\ packages'[id].status # packages[id].status
             => <<packages[id].status, packages'[id].status>> \in ClaimedTransitions]_vars

(* C5 as amended: the stored status also changes Created->Refunded (a      *)
(* refund of a Created package past its expiry); nothing returns to        *)
(* Created and a Claimed or Refunded package keeps its status.             *)
C5_StatusMachine ==
    [][\A id \in DOMAIN packages :
        /\ id \in DOMAIN packages'
        /\ packages'[id].status # packages[id].status
             => <<packages[id].status, packages'[id].status>>
                  \in ClaimedTransitions \cup {<<"Created", "Refunded">>}]_vars

C5_Witness ==
    /\ event.name = "Refunded"
    /\ prev[event.id] = "Created"
    /\ packages[event.id].status = "Refunded"

(* C6: a successful claim sets the status to Claimed, moves exactly the    *)
(* package amount from the pool to the recipient, decrements locked by     *)
(* exactly that amount and changes no other package.                       *)
C6_ClaimEffect ==
    \A id \in Ids, auths \in AuthSets :
        LET r == claim(Cur, id, auths, <<>>)
        IN  r.res = "Ok"
            => LET package == packages[id]
                   token   == package.token
               IN  /\ package.status = "Created"
                   /\ ~is_expired(package)
                   /\ r.st.packages = [packages EXCEPT ![id].status = "Claimed"]
                   /\ r.st.balance[token][package.recipient]
                        = balance[token][package.recipient] + package.amount
                   /\ r.st.balance[token][Pool] = balance[token][Pool] - package.amount
                   /\ r.st.locked[token] = locked[token] - package.amount

C6_Witness ==
    /\ event.name = "Claimed"
    /\ packages[event.id].status = "Claimed"
    /\ packages[event.id].amount = 1
    /\ event.amount = 1
    /\ balance["X"]["ben"] = 1
    /\ balance["X"][Pool] = 1
    /\ locked["X"] = 0

(* C7: expiry then refund - once the clock is past expires_at a claim of   *)
(* a Created package fails with PackageExpired and leaves it Expired, and  *)
(* the administrator's refund of the Expired package succeeds, pays the    *)
(* administrator exactly the amount and leaves the package Refunded.       *)
C7_ExpiryThenRefund ==
    \A id \in DOMAIN packages :
        LET package == packages[id]
            token   == package.token
        IN  /\ (package.status = "Created" /\ is_expired(package))
                 => \A auths \in AuthSets :
                      LET r == claim(Cur, id, auths, <<>>)
                      IN  /\ r.res = "PackageExpired"
                          /\ r.st.packages[id].status = "Expired"
            /\ (package.status = "Expired" /\ prev[id] = "Created")
                 => LET r == refund(Cur, id, {admin}, <<>>)
                    IN  /\ r.res = "Ok"
                        /\ r.st.balance[token][admin]
                             = balance[token][admin] + package.amount
                        /\ r.st.packages[id].status = "Refunded"

(* C8: a successful revoke sets the status to Cancelled, decrements locked *)
(* by exactly the amount and moves no tokens, so that a create_package     *)
(* that failed with InsufficientFunds before and fits into the freed       *)
(* amount succeeds after it.                                               *)
C8_RevokeFreesFunds ==
    \A id \in Ids, auths \in AuthSets :
        LET r == revoke(Cur, id, auths)
        IN  (r.res = "Ok" /\ id \in DOMAIN packages)
            => LET package == packages[id]
                   token   == package.token
               IN  /\ package.status = "Created"
                   /\ r.st.packages = [packages EXCEPT ![id].status = "Cancelled"]
                   /\ r.st.locked[token] = locked[token] - package.amount
                   /\ r.st.balance = balance
                   /\ \A id2 \in Ids \ DOMAIN packages, amount \in Amounts :
                        ( /\ create_package(Cur, id2, "ben", amount, token, 0,
                                            {admin}).res = "InsufficientFunds"
                          /\ amount <= balance[token][Pool] - locked[token]
                                         + package.amount )
                        => create_package(r.st, id2, "ben", amount, token, 0,
                                          {admin}).res = "Ok"

C8_Witness ==
    /\ event.name = "Revoked"
    /\ packages[event.id].status = "Cancelled"
    /\ prev[event.id] = "Created"
    /\ \E id2 \in Ids \ DOMAIN packages, amount \in Amounts :
         LET token == packages[event.id].token
         IN  /\ create_package(Cur, id2, "ben", amount, token, 0, {admin}).res = "Ok"
             /\ amount > balance[token][Pool] - locked[token] - event.amount

(* The calls of the last completed operation: the operation itself, named *)
(* by its event, and the calls the token made back during its transfers,   *)
(* outermost first.                                                        *)
Frames == <<[op |-> event.name, id |-> event.id, res |-> "Ok"]>> \o event.nested

(* C9: re-entrancy - a call on package p made from inside the token        *)
(* transfer of a claim, disburse or refund of p is rejected, p's amount    *)
(* leaves the pool at most once and locked is decremented for p at most    *)
(* once.                                                                   *)
C9_Reentrancy ==
    /\ \A id \in DOMAIN packages :
         /\ unlocks[id] <= 1
         /\ paid[id].recipient + paid[id].admin <= packages[id].amount
    /\ \A k \in 1..Len(Frames), j \in 1..Len(Frames) :
         ( /\ k < j
           /\ Frames[k].op \in {"Claimed", "Disbursed", "Refunded",
                                 "claim", "disburse", "refund"}
           /\ Frames[k].id = Frames[j].id )
         => Frames[j].res \in Rejected

C9_Witness ==
    /\ event.name \in {"Claimed", "Disbursed", "Refunded"}
    /\ Len(event.nested) >= 1
    /\ event.nested[1].id = event.id
    /\ event.nested[1].res \in Rejected
    /\ unlocks[event.id] = 1
    /\ paid[event.id].recipient + paid[event.id].admin = packages[event.id].amount

(* C10: an operation that returns an error leaves the administrator, the   *)
(* packages, locked and the balances unchanged, except that a claim that   *)
(* returns PackageExpired changes the status of its package from Created   *)
(* to Expired and nothing else.                                            *)
Untouched(S) ==
    /\ S.admin = admin
    /\ S.packages = packages
    /\ S.locked = locked
    /\ S.balance = balance

OtherCalls ==
    {init(Cur, a) : a \in Admins}
    \cup {get_admin(Cur)}
    \cup {fund(Cur, token, from, amount, auths) :
            token \in Assets, from \in Addrs, amount \in Amounts, auths \in AuthSets}
    \cup {create_package(Cur, id, recipient, amount, token, expires_at, auths) :
            id \in Ids, recipient \in Recipients, amount \in Amounts,
            token \in Assets, expires_at \in Expiries, auths \in AuthSets}
    \cup {disburse(Cur, id, auths, <<>>) : id \in Ids, auths \in AuthSets}
    \cup {revoke(Cur, id, auths) : id \in Ids, auths \in AuthSets}
    \cup {refund(Cur, id, auths, <<>>) : id \in Ids, auths \in AuthSets}
    \cup {get_package(Cur, id) : id \in Ids}

C10_ErrorLeavesState ==
    /\ \A r \in OtherCalls : r.res \in Errors => Untouched(r.st)
    /\ \A id \in Ids, auths \in AuthSets :
         LET r == claim(Cur, id, auths, <<>>)
         IN  r.res \in Errors
             => \/ Untouched(r.st)
                \/ /\ r.res = "PackageExpired"
                   /\ id \in DOMAIN packages
                   /\ packages[id].status = "Created"
                   /\ r.st.packages = [packages EXCEPT ![id].status = "Expired"]
                   /\ r.st.admin = admin
                   /\ r.st.locked = locked
                   /\ r.st.balance = balance

C10_Witness ==
    /\ \E id \in DOMAIN packages :
         /\ prev[id] = "Created"
         /\ packages[id].status = "Expired"
         /\ locked[packages[id].token] >= packages[id].amount
    /\ \E r \in OtherCalls : r.res = "InsufficientFunds"

(* C11: get_package is a pure query - for a present or an absent id and at  *)
(* any clock value it changes no package, locked total, administrator or   *)
(* balance (a Created package past its expiry stays Created), and it       *)
(* returns the stored record or PackageNotFound.                           *)
C11_GetPackagePure ==
    \A id \in Ids :
        LET r == get_package(Cur, id)
        IN  /\ r.st = Cur
            /\ IF id \in DOMAIN packages
               THEN r.res = "Ok" /\ r.val = packages[id]
               ELSE r.res = "PackageNotFound"

C11_Witness ==
    \E id \in DOMAIN packages :
        /\ packages[id].status = "Created"
        /\ is_expired(packages[id])
        /\ get_package(Cur, id).val.status = "Created"
        /\ \E id2 \in Ids : get_package(Cur, id2).res = "PackageNotFound"

(* C12: package ids are unique for the contract's lifetime - once a        *)
(* package with an id is stored, every administrator-authorised            *)
(* create_package with that id and amount > 0 fails with PackageIdExists   *)
(* whatever the package's status and leaves the package and the locked     *)
(* totals unchanged, and no operation removes a package record.            *)
C12_IdsUnique ==
    /\ [](\A id \in DOMAIN packages, recipient \in Recipients, amount \in Amounts,
             token \in Assets, expires_at \in Expiries :
             amount > 0
             => LET r == create_package(Cur, id, recipient, amount, token,
                                        expires_at, {admin})
                IN  /\ r.res = "PackageIdExists"
                    /\ r.st.packages = packages
                    /\ r.st.locked = locked)
    /\ [][DOMAIN packages \subseteq DOMAIN packages']_vars

C12_Witness ==
    /\ DOMAIN packages = Ids
    /\ packages[1].status = "Refunded"
    /\ packages[2].status = "Claimed"
    /\ \A id \in Ids :
         create_package(Cur, id, "ben", 1, "X", 0, {admin}).res = "PackageIdExists"
    /\ balance["X"][Pool] - locked["X"] >= 1

(* C13: the administrator is set exactly once - the first init stores its  *)
(* argument, every later init fails with AlreadyInitialized and leaves the *)
(* administrator unchanged, no operation changes a stored administrator,   *)
(* and before the first init get_admin, create_package, disburse, revoke   *)
(* and refund fail with NotInitialized.                                    *)
C13_AdminSetOnce ==
    /\ [](\A a \in Addrs :
            LET r == init(Cur, a)
            IN  IF admin = NoAdmin
                THEN r.res = "Ok" /\ r.st.admin = a
                ELSE r.res = "AlreadyInitialized" /\ r.st = Cur)
    /\ [](admin = NoAdmin
            => /\ get_admin(Cur).res = "NotInitialized"
               /\ \A id \in Ids, auths \in AuthSets \cup {AllAuth} :
                    /\ \A recipient \in Recipients, amount \in Amounts,
                          token \in Assets, expires_at \in Expiries :
                          create_package(Cur, id, recipient, amount, token,
                                         expires_at, auths).res = "NotInitialized"
                    /\ disburse(Cur, id, auths, <<>>).res = "NotInitialized"
                    /\ revoke(Cur, id, auths).res = "NotInitialized"
                    /\ refund(Cur, id, auths, <<>>).res = "NotInitialized")
    /\ [][admin # NoAdmin => admin' = admin]_vars

C13_Witness ==
    /\ admin = "adm"
    /\ init(Cur, "ben").res = "AlreadyInitialized"
    /\ init(Cur, "adm").res = "AlreadyInitialized"
    /\ event.name = "Refunded"

(* C14: refund eligibility - the administrator's refund fails with         *)
(* InvalidState and changes nothing when the package is Claimed, Refunded, *)
(* or Created and not past its expiry (expires_at = 0 or clock <=          *)
(* expires_at); it proceeds only for an Expired, a Cancelled or a Created  *)
(* package past its expiry; at most one refund of a package succeeds and a *)
(* Claimed package is never refunded.                                      *)
C14_RefundEligibility ==
    /\ [](\A id \in DOMAIN packages :
            LET package == packages[id]
                r       == refund(Cur, id, {admin}, <<>>)
                open    == /\ package.status = "Created"
                           /\ (package.expires_at = 0 \/ now <= package.expires_at)
            IN  /\ (package.status \in {"Claimed", "Refunded"} \/ open)
                     => r.res = "InvalidState" /\ r.st = Cur
                /\ r.res \in {"Ok", "TransferTrap"}
                     => \/ package.status \in {"Expired", "Cancelled"}
                        \/ /\ package.status = "Created"
                           /\ package.expires_at > 0
                           /\ now > package.expires_at
                /\ paid[id].admin \in {0, package.amount}
                /\ package.status = "Claimed" => paid[id].admin = 0)
    /\ [][\A id \in DOMAIN packages :
            packages[id].status = "Claimed" => packages'[id].status = "Claimed"]_vars

C14_Witness ==
    /\ DOMAIN packages = Ids
    /\ packages[1].status = "Refunded"
    /\ paid[1].admin = packages[1].amount
    /\ packages[2].status = "Claimed"
    /\ balance["X"][Pool] >= 1
    /\ \A id \in Ids : refund(Cur, id, {admin}, <<>>).res = "InvalidState"

(* The sum of the amounts of the stored packages with the given ids.       *)
RECURSIVE SumAmounts(_)
SumAmounts(ids) ==
    IF ids = {} THEN 0
    ELSE LET i == CHOOSE j \in ids : TRUE
         IN  packages[i].amount + SumAmounts(ids \ {i})

(* The Created packages of a token.                                        *)
Open(token) ==
    {id \in DOMAIN packages :
        packages[id].token = token /\ packages[id].status = "Created"}

(* The packages of a token that a failed claim moved to Expired, whether   *)
(* refunded since or not (only claim stores Expired).                      *)
ExpiredByClaim(token) ==
    {id \in DOMAIN packages :
        /\ packages[id].token = token
        /\ \/ packages[id].status = "Expired"
           \/ packages[id].status = "Refunded" /\ prev[id] = "Expired"}

(* C15: lock left behind by claim-driven expiry - a failed claim that      *)
(* moves a Created package to Expired does not decrement locked, a later   *)
(* refund of the Expired package leaves locked unchanged, and the amount   *)
(* of such a package is never removed from locked, which therefore stays   *)
(* above the sum of the amounts of the Created packages.                   *)
C15_LockLeftBehind ==
    /\ [][\A id \in DOMAIN packages :
            \/ /\ packages[id].status = "Created"
               /\ packages'[id].status = "Expired"
            \/ /\ packages[id].status = "Expired"
               /\ packages'[id].status = "Refunded"
            => locked' = locked /\ unlocks'[id] = unlocks[id]]_vars
    /\ [](\A token \in Assets :
            /\ \A id \in ExpiredByClaim(token) : unlocks[id] = 0
            /\ locked[token] - SumAmounts(Open(token))
                 >= SumAmounts(ExpiredByClaim(token))
            /\ ExpiredByClaim(token) # {}
                 => locked[token] > SumAmounts(Open(token)))

C15_Witness ==
    /\ event.name = "Refunded"
    /\ event.id \in ExpiredByClaim("X")
    /\ packages[event.id].status = "Refunded"
    /\ Open("X") = {}
    /\ locked["X"] = packages[event.id].amount

(* C16: accumulator meaning - in every reachable state and for every      *)
(* asset, locked equals the sum of the amounts of exactly the Created      *)
(* packages of that asset.                                                 *)
C16_Accumulator ==
    \A token \in Assets : locked[token] = SumAmounts(Open(token))

(* C17: admin-forced disbursement ignores expiry - the administrator's     *)
(* disburse of a package stored as Created succeeds whatever the clock,    *)
(* sets the status to Claimed, decrements locked by the amount and pays    *)
(* the amount to the recipient; on a package stored with any other status  *)
(* it fails with PackageNotActive.                                         *)
C17_DisburseIgnoresExpiry ==
    \A id \in DOMAIN packages :
        LET package == packages[id]
            token   == package.token
            r       == disburse(Cur, id, {admin}, <<>>)
        IN  IF package.status = "Created"
            THEN /\ r.res = "Ok"
                 /\ r.st.packages[id].status = "Claimed"
                 /\ r.st.locked[token] = locked[token] - package.amount
                 /\ r.st.balance[token][package.recipient]
                      = balance[token][package.recipient] + package.amount
            ELSE r.res = "PackageNotActive"

(* C18: expiry predicate - claim and refund treat a Created package as     *)
(* expired exactly when expires_at > 0 and the clock is strictly greater   *)
(* than expires_at; a package with expires_at = 0 never has status         *)
(* Expired, and the recipient's claim at a time equal to expires_at is not *)
(* rejected with PackageExpired.                                           *)
C18_ExpiryPredicate ==
    \A id \in DOMAIN packages :
        LET package == packages[id]
            past    == package.expires_at > 0 /\ now > package.expires_at
        IN  /\ package.status = "Created"
                 => /\ \A auths \in AuthSets :
                         claim(Cur, id, auths, <<>>).res = "PackageExpired" <=> past
                    /\ refund(Cur, id, {admin}, <<>>).res = "InvalidState" <=> ~past
                    /\ now = package.expires_at
                         => claim(Cur, id, {package.recipient}, <<>>).res
                              \in {"Ok", "TransferTrap"}
            /\ package.expires_at = 0
                 => /\ package.status # "Expired"
                    /\ prev[id] # "Expired"

C18_Witness ==
    /\ event.name = "Claimed"
    /\ now > 0
    /\ packages[event.id].expires_at = now
    /\ \E id \in DOMAIN packages :
         /\ packages[id].expires_at = 0
         /\ packages[id].status = "Created"
         /\ refund(Cur, id, {admin}, <<>>).res = "InvalidState"

(* C19: open packages are always payable - in every reachable state and   *)
(* for every asset the contract's balance is at least the sum of the       *)
(* amounts of the Created packages, so that no claim or disburse of a      *)
(* Created package fails in the transfer for lack of funds.                *)
C19_OpenPackagesPayable ==
    \A token \in Assets :
        /\ balance[token][Pool] >= SumAmounts(Open(token))
        /\ \A id \in Open(token) :
             /\ claim(Cur, id, {packages[id].recipient}, <<>>).res # "TransferTrap"
             /\ disburse(Cur, id, {admin}, <<>>).res # "TransferTrap"

(* C20: single payout per package - the total transferred out of the      *)
(* contract's balance on account of one package is 0 or exactly the        *)
(* package's amount, paid either to the recipient or to the administrator, *)
(* never to both and never twice.                                          *)
C20_SinglePayout ==
    \A id \in Ids :
        IF id \in DOMAIN packages
        THEN \/ paid[id].recipient = 0 /\ paid[id].admin = 0
             \/ paid[id].recipient = packages[id].amount /\ paid[id].admin = 0
             \/ paid[id].recipient = 0 /\ paid[id].admin = packages[id].amount
        ELSE paid[id].recipient = 0 /\ paid[id].admin = 0

C20_Witness ==
    /\ DOMAIN packages = Ids
    /\ paid[1].recipient = packages[1].amount
    /\ paid[1].admin = 0
    /\ packages[1].status = "Claimed"
    /\ paid[2].admin = packages[2].amount
    /\ paid[2].recipient = 0
    /\ packages[2].status = "Refunded"
    /\ balance["X"][Pool] >= 1

(* C21: authorization gates every state change after initialization - a  *)
(* fund not authorised by the funder, a create_package, disburse, revoke   *)
(* or refund not authorised by the administrator and a claim not           *)
(* authorised by the package's recipient leave every package, the locked   *)
(* totals and every balance unchanged.                                     *)
C21_AuthorizationGates ==
    admin # NoAdmin
    => \A auths \in SUBSET Addrs :
         /\ \A token \in Assets, from \in Addrs \ auths, amount \in Amounts :
              Untouched(fund(Cur, token, from, amount, auths).st)
         /\ admin \notin auths
              => \A id \in Ids :
                   /\ \A recipient \in Recipients, amount \in Amounts,
                         token \in Assets, expires_at \in Expiries :
                         Untouched(create_package(Cur, id, recipient, amount, token,
                                                  expires_at, auths).st)
                   /\ Untouched(disburse(Cur, id, auths, <<>>).st)
                   /\ Untouched(revoke(Cur, id, auths).st)
                   /\ Untouched(refund(Cur, id, auths, <<>>).st)
         /\ \A id \in DOMAIN packages :
              packages[id].recipient \notin auths
              => Untouched(claim(Cur, id, auths, <<>>).st)

(* C22: decrement_locked never has to clamp - in every reachable state the *)
(* locked total of an asset is at least the amount of each of its Created  *)
(* packages, so decrement_locked called for a package leaving Created      *)
(* yields exactly locked - amount, and locked is never negative.           *)
C22_NeverClamps ==
    \A token \in Assets :
        /\ locked[token] >= 0
        /\ locked[token] >= SumAmounts(Open(token))
        /\ \A id \in Open(token) :
             LET amount == packages[id].amount
             IN  /\ locked[token] >= amount
                 /\ decrement_locked(Cur, token, amount).locked[token]
                      = locked[token] - amount

C22_Witness ==
    /\ event.name \in {"Claimed", "Disbursed", "Revoked", "Refunded"}
    /\ unlocks[event.id] = 1
    /\ prev[event.id] = "Created"
    /\ Open("X") # {}
    /\ locked["X"] = SumAmounts(Open("X"))
    /\ locked["X"] >= 1

====
